---------------------------- MODULE Spec2Model ----------------------------
(***************************************************************************)
(* A model of the WCO collection routing pipeline (nedpals/cvrp-project):  *)
(* the trip ledger (models/trip_collection.py, models/shared_models.py),   *)
(* the collection scheduler (scheduling/collection_scheduler.py), the      *)
(* solver family (solvers/) and the pipeline driver (cvrp.py).             *)
(*                                                                         *)
(* Modelling conventions                                                   *)
(*  - Geometry.  Every point lies on one meridian, so a coordinate pair is *)
(*    modelled by its position in whole kilometres along that meridian and *)
(*    the haversine distance of two points is the absolute difference of   *)
(*    their positions.  NoPos stands for Python's None where a coordinate  *)
(*    is optional.                                                         *)
(*  - Quantities.  Litres, kilometres and minutes are integers; with the   *)
(*    speed of 30 km/h every float the code computes from them is exact.   *)
(*  - A location is identified by its id (1..n); the depot marker None in  *)
(*    a route is the id 0 (NoneLoc).                                       *)
(*  - Calls between files bind the parameters the callee of this source    *)
(*    tree declares; keyword arguments the callee does not declare are     *)
(*    dropped (e.g. force_assign, use_geo_cluster, speed_kph handed to     *)
(*    CollectionScheduler and to the solvers).                             *)
(*  - sklearn's KMeans and OR-Tools are libraries outside the repository:  *)
(*    their results are nondeterministic choices over what they can        *)
(*    return.                                                              *)
(***************************************************************************)
EXTENDS Integers, Sequences, FiniteSets, TLC

VARIABLES
    vehicles,             \* CVRP.vehicles: sequence of Vehicle records
    locations,            \* the LocationRegistry handed to process(), in insertion order
    schedule_entries,     \* the ScheduleEntry list handed to process()
    solver_class,         \* CVRP.solver_class
    constraints,          \* CVRP.constraints.one_way_roads: sequence of <<from, to>> coordinates
    collection_tracker,   \* the TripCollection ledger
    call,                 \* the most recent ledger call: operation, arguments, return value
    accepted,             \* history: day -> stops accepted since the last effective reset of the day
    pc,                   \* position of the driver inside CVRP.process
    sched_idx,            \* index of the schedule entry being processed
    day,                  \* process(): day
    trip_number,          \* process(): trip_number
    remaining_locations,  \* process(): remaining_locations (sequence of location ids)
    processed_location_ids, \* process(): processed_location_ids
    initial_assignments,  \* process(): the scheduler's result of the current round
    vehicle_assignments,  \* process(): the solver's (patched) result of the current round
    pending,              \* the registration calls of the current round still to be made
    reports,              \* per processed schedule: the location report printed by process()
    registry,             \* a LocationRegistry object: its five private fields
    http,                 \* a POST /api/optimize exchange: solver id asked for, status answered
    written               \* history: <<schedule index, ledger key>> for every key a schedule wrote to

vars == <<vehicles, locations, schedule_entries, solver_class, constraints,
          collection_tracker,
          call, accepted, pc, sched_idx, day, trip_number, remaining_locations,
          processed_location_ids, initial_assignments, vehicle_assignments,
          pending, reports, registry, http, written>>

inputs == <<vehicles, locations, schedule_entries, solver_class, constraints>>

driver == <<pc, sched_idx, day, trip_number, remaining_locations,
            processed_location_ids, initial_assignments, vehicle_assignments,
            pending, reports>>

-----------------------------------------------------------------------------
(* Generic helpers on sequences and functions.                             *)

NoneLoc == 0
NoPos == -1

\* no HTTP exchange: no solver id asked for, no status answered
NoRequest == [ solver |-> "", status_code |-> 0 ]

RECURSIVE SumSeq(_)
SumSeq(s) == IF s = <<>> THEN 0 ELSE Head(s) + SumSeq(Tail(s))

Range(s) == { s[i] : i \in DOMAIN s }

RECURSIVE SelectSeqIdx(_, _, _)
\* the subsequence of s at the indices i >= from with keep[i]
SelectSeqIdx(s, keep, from) ==
    IF from > Len(s) THEN <<>>
    ELSE (IF keep[from] THEN <<s[from]>> ELSE <<>>) \o SelectSeqIdx(s, keep, from + 1)

\* the elements of a set of integers in ascending order
RECURSIVE Ascending(_)
Ascending(S) ==
    IF S = {} THEN <<>>
    ELSE LET m == CHOOSE x \in S : \A y \in S : x <= y
         IN  <<m>> \o Ascending(S \ {m})

RECURSIVE Flatten(_)
Flatten(ss) == IF Len(ss) = 0 THEN <<>> ELSE Head(ss) \o Flatten(Tail(ss))

\* the function f on 1..n as a sequence (a Python list built by a comprehension)
RECURSIVE List(_, _)
List(f, n) == IF n = 0 THEN <<>> ELSE Append(List(f, n - 1), f[n])

Min(a, b) == IF a <= b THEN a ELSE b
Max(a, b) == IF a >= b THEN a ELSE b

-----------------------------------------------------------------------------
(* utils.py                                                                *)

AVERAGE_SPEED_KPH == 30
MAX_DAILY_TIME == 420

calculate_distance(coord1, coord2) ==
    IF coord1 >= coord2 THEN coord1 - coord2 ELSE coord2 - coord1

estimate_collection_time(max_stop_time) == max_stop_time

estimate_travel_time(distance, speed_kph) == (distance * 60) \div speed_kph

\* <<collection_time, travel_time, depot_return_time>> in minutes
calculate_stop_times(location, depot_location, prev_location, collection_time_minutes, speed_kph) ==
    LET collection_time == estimate_collection_time(collection_time_minutes)
        travel_time ==
            IF prev_location # NoPos
            THEN estimate_travel_time(
                     calculate_distance(prev_location, location.coordinates), speed_kph)
            ELSE IF depot_location # NoPos
            THEN estimate_travel_time(
                     calculate_distance(depot_location, location.coordinates), speed_kph)
            ELSE 0
        depot_return_time ==
            IF depot_location # NoPos
            THEN estimate_travel_time(
                     calculate_distance(location.coordinates, depot_location), speed_kph)
            ELSE 0
    IN  <<collection_time, travel_time, depot_return_time>>

calculate_total_time(collection_time, travel_time, depot_return_time) ==
    collection_time + travel_time + depot_return_time

-----------------------------------------------------------------------------
(* models/shared_models.py: CollectionData                                 *)

NewCollectionData(vehicle_id, d, trip, collection_time_minutes, speed_kph) ==
    [ vehicle_id |-> vehicle_id, day |-> d, trip_number |-> trip,
      visited_location_ids |-> {}, total_collected |-> 0, total_distance |-> 0,
      stops |-> <<>>, collection_time_minutes |-> collection_time_minutes,
      speed_kph |-> speed_kph ]

\* a load that forgets the stops already made
current_load_of_last(cd) == 0

\* line 137: current_load = sum(stop.amount_collected for stop in self.stops)
current_load_of(cd) ==
    SumSeq([i \in DOMAIN cd.stops |-> cd.stops[i].amount_collected])

\* an add_stop that appends the stop and does not note the location as visited
add_stop_unnoted(cd, location, distance_from_prev) ==
    [ cd EXCEPT !.stops = Append(@, [ location_id |-> location.id,
                                      coordinates |-> location.coordinates,
                                      amount_collected |-> location.wco_amount,
                                      cumulative_load |-> current_load_of(cd) + location.wco_amount,
                                      distance_from_prev |-> distance_from_prev,
                                      trip_number |-> cd.trip_number,
                                      collection_day |-> cd.day,
                                      collection_time |-> cd.collection_time_minutes * 60,
                                      travel_time |-> (distance_from_prev * 3600) \div cd.speed_kph ]),
                !.total_collected = @ + location.wco_amount,
                !.total_distance = @ + distance_from_prev ]

add_stop(cd, location, distance_from_prev) ==
    LET current_load == current_load_of(cd)
        new_stop ==
            [ location_id |-> location.id,
              coordinates |-> location.coordinates,
              amount_collected |-> location.wco_amount,
              cumulative_load |-> current_load + location.wco_amount,
              distance_from_prev |-> distance_from_prev,
              trip_number |-> cd.trip_number,
              collection_day |-> cd.day,
              collection_time |-> cd.collection_time_minutes * 60,
              travel_time |-> (distance_from_prev * 3600) \div cd.speed_kph ]
    IN  [ cd EXCEPT !.stops = Append(@, new_stop),
                    !.visited_location_ids = @ \cup {location.id},
                    !.total_collected = @ + location.wco_amount,
                    !.total_distance = @ + distance_from_prev ]

-----------------------------------------------------------------------------
(* models/location_registry.py: LocationRegistry.  Indices are the code's  *)
(* 0-based list indices; a dict is a function on the keys it holds.        *)

\* Location(id=..., name=..., coordinates=..., wco_amount=..., disposal_schedule=...)
NamedLocation(id, name, coordinates) ==
    [ id |-> id, name |-> name, coordinates |-> coordinates, wco_amount |-> 20,
      disposal_schedule |-> 1 ]

\* LocationRegistry(): the five containers, empty
NewLocationRegistry ==
    [ all_locations |-> <<>>, location_ids |-> <<>>, coordinates_map |-> <<>>,
      location_names |-> <<>>, name_indices |-> <<>> ]

\* d[key] of a defaultdict(list)
DefaultList(d, key) == IF key \in DOMAIN d THEN d[key] ELSE <<>>

\* d[key] = value
DictSet(d, key, value) ==
    [ k \in DOMAIN d \cup {key} |-> IF k = key THEN value ELSE d[k] ]

\* an add that does not look for the id
registry_add_always(self, location) ==
    [ self EXCEPT
        !.all_locations = Append(@, location),
        !.location_ids = Append(@, location.id),
        !.coordinates_map = DictSet(@, location.coordinates,
                                Append(DefaultList(@, location.coordinates), location.id)),
        !.location_names = Append(@, location.name),
        !.name_indices = DictSet(@, location.name,
                             Append(DefaultList(@, location.name), Len(self.all_locations))) ]

\* LocationRegistry.add
registry_add(self, location) ==
    IF location.id \in Range(self.location_ids) THEN self
    ELSE [ self EXCEPT
        !.all_locations = Append(@, location),
        !.location_ids = Append(@, location.id),
        !.coordinates_map = DictSet(@, location.coordinates,
                                Append(DefaultList(@, location.coordinates), location.id)),
        !.location_names = Append(@, location.name),
        !.name_indices = DictSet(@, location.name,
                             Append(DefaultList(@, location.name), Len(self.all_locations))) ]

\* LocationRegistry.clear
registry_clear(self) == NewLocationRegistry

\* list.index(x) as a 0-based index, -1 when x is not in the list
RECURSIVE IndexOf(_, _, _)
IndexOf(s, x, i) ==
    IF i > Len(s) THEN -1
    ELSE IF s[i] = x THEN i - 1
    ELSE IndexOf(s, x, i + 1)

\* list.pop(index) for a 0-based index inside the list: the list left
Pop(s, index) == SubSeq(s, 1, index) \o SubSeq(s, index + 2, Len(s))

\* list.sort() of a list of ints
RECURSIVE InsertInt(_, _)
InsertInt(sorted, x) ==
    IF sorted = <<>> THEN <<x>>
    ELSE IF sorted[Len(sorted)] <= x THEN Append(sorted, x)
    ELSE Append(InsertInt(SubSeq(sorted, 1, Len(sorted) - 1), x), sorted[Len(sorted)])

RECURSIVE SortInts(_)
SortInts(s) ==
    IF s = <<>> THEN <<>>
    ELSE InsertInt(SortInts(SubSeq(s, 1, Len(s) - 1)), s[Len(s)])

RECURSIVE ShiftDown(_, _)
ShiftDown(indices, removed_index) ==
    IF indices = <<>> THEN <<>>
    ELSE <<IF indices[1] > removed_index THEN indices[1] - 1 ELSE indices[1]>>
             \o ShiftDown(SubSeq(indices, 2, Len(indices)), removed_index)

\* LocationRegistry._update_indices
update_indices(name_indices, removed_index) ==
    [ k \in DOMAIN name_indices |-> SortInts(ShiftDown(name_indices[k], removed_index)) ]

\* LocationRegistry.remove: <<the registry after the call, the way the call
\* ends>>; an exception leaves the registry as the statements before it made
\* it
registry_remove(self, location) ==
    LET index == IndexOf(self.location_ids, location.id, 1)
        s1 == [ self EXCEPT !.all_locations = Pop(@, index),
                            !.location_ids = Pop(@, index) ]
        s2 == [ s1 EXCEPT !.location_names = Pop(@, index) ]
        name == s2.location_names[index + 1]
        s3 == [ s2 EXCEPT !.location_names = Pop(@, index),
                          !.name_indices = DictSet(@, name, DefaultList(@, name)) ]
        at == IndexOf(s3.name_indices[name], index, 1)
        left == Pop(s3.name_indices[name], at)
        s4 == [ s3 EXCEPT !.name_indices =
                    IF left = <<>>
                    THEN [ k \in DOMAIN @ \ {name} |-> @[k] ]
                    ELSE DictSet(@, name, left) ]
    IN  IF index = -1 THEN <<self, "returns">>
        ELSE IF index >= Len(s1.location_names) THEN <<s1, "IndexError">>
        ELSE IF index >= Len(s2.location_names) THEN <<s2, "IndexError">>
        ELSE IF at = -1 THEN <<s3, "ValueError">>
        ELSE << [ s4 EXCEPT !.name_indices = update_indices(@, index) ], "returns" >>

\* LocationRegistry.get_by_id: <<the result, the way the call ends>>; the
\* Optional[Location] is a set of at most one location
get_by_id(self, location_id) ==
    LET index == IndexOf(self.location_ids, location_id, 1)
    IN  IF index = -1 THEN <<{}, "returns">>
        ELSE IF index >= Len(self.all_locations) THEN <<{}, "IndexError">>
        ELSE <<{self.all_locations[index + 1]}, "returns">>

\* LocationRegistry.get_by_name: <<the set returned, the way the call ends>>
get_by_name(self, name) ==
    LET indices == DefaultList(self.name_indices, name)
    IN  IF \E k \in DOMAIN indices : indices[k] >= Len(self.all_locations)
        THEN <<{}, "IndexError">>
        ELSE <<{ self.all_locations[indices[k] + 1] : k \in DOMAIN indices }, "returns">>

\* LocationRegistry.get_by_coordinates: <<the list returned, the way the call
\* ends>>; two different positions of the model are further apart than the
\* tolerance, so the loop of lines 89-93 finds nothing the exact match missed
get_by_coordinates(self, coordinates) ==
    IF coordinates \in DOMAIN self.coordinates_map
    THEN LET loc_ids == self.coordinates_map[coordinates]
         IN  IF \E k \in DOMAIN loc_ids : IndexOf(self.location_ids, loc_ids[k], 1) = -1
             THEN <<<<>>, "ValueError">>
             ELSE << List([ k \in DOMAIN loc_ids |->
                             self.all_locations[IndexOf(self.location_ids, loc_ids[k], 1) + 1] ],
                          Len(loc_ids)),
                     "returns" >>
    ELSE <<<<>>, "returns">>

-----------------------------------------------------------------------------
(* models/trip_collection.py: TripCollection                               *)

\* TripCollection(speed_kph=..., max_daily_time=..., _exceeds_daily_time=...)
TripCollection(speed_kph, max_daily_time, flags) ==
    [ vehicle_collections |-> <<>>,
      total_times |-> <<>>,
      exceeds_daily_time_map |-> flags,
      total_trips |-> 0,
      total_stops |-> 0,
      speed_kph |-> speed_kph,
      max_daily_time |-> max_daily_time ]

exceeds_daily_time(self, d) ==
    IF d \in DOMAIN self.exceeds_daily_time_map
    THEN self.exceeds_daily_time_map[d]
    ELSE FALSE

\* a reset that rolls the day over: it also forgets the trips of the day
clear_whole_day(self, d) ==
    [ self EXCEPT
        !.total_times = IF d \in DOMAIN @ THEN [ @ EXCEPT ![d] = 0 ] ELSE @,
        !.exceeds_daily_time_map = IF d \in DOMAIN @ THEN [ @ EXCEPT ![d] = FALSE ] ELSE @,
        !.vehicle_collections = [ key \in { k \in DOMAIN @ : k[2] # d } |-> @[key] ] ]

clear_total_time(self, d) ==
    [ self EXCEPT
        !.total_times =
            IF d \in DOMAIN @ THEN [ @ EXCEPT ![d] = 0 ] ELSE @,
        !.exceeds_daily_time_map =
            IF d \in DOMAIN @ THEN [ @ EXCEPT ![d] = FALSE ] ELSE @ ]

\* the refusal test of register_collection (line 52), and the test left out
DayIsNeverClosed(self, d) == FALSE
DayIsClosed(self, d) == exceeds_daily_time(self, d)

\* the duplicate test of register_collection (line 79): the visited ids of
\* the CollectionData of this (vehicle, day, trip) key only
AlreadyVisited(collections, key, location) ==
    location.id \in collections[key].visited_location_ids

\* the value register_collection stores in _exceeds_daily_time[day] when the
\* projected time is above max_daily_time (line 110)
BreachFlag == FALSE

\* the value register_collection leaves in total_times[day] after an accepted
\* stop (line 118 is commented out: the running total is not stored), and the
\* value line 118 would store
StoredRunningTotal(prev_total_time, total_time) == total_time
StoredTotalTime(prev_total_time, total_time) == prev_total_time

\* register_collection: <<the ledger after the call, the value returned>>
register_collection(self, vehicle_id, d, trip, location, depot_location, collection_time_minutes) ==
    LET key == <<vehicle_id, d, trip>>
    IN
    IF DayIsClosed(self, d) THEN <<self, FALSE>>
    ELSE
    LET isNew == key \notin DOMAIN self.vehicle_collections
        trips1 == IF isNew THEN self.total_trips + 1 ELSE self.total_trips
        colls1 ==
            IF isNew
            THEN (key :> NewCollectionData(vehicle_id, d, trip,
                                           collection_time_minutes, self.speed_kph))
                 @@ self.vehicle_collections
            ELSE self.vehicle_collections
        times1 ==
            IF d \notin DOMAIN self.total_times
            THEN (d :> 0) @@ self.total_times
            ELSE self.total_times
        self1 == [ self EXCEPT !.total_trips = trips1,
                               !.vehicle_collections = colls1,
                               !.total_times = times1 ]
    IN
    IF AlreadyVisited(colls1, key, location) THEN <<self1, FALSE>>
    ELSE
    LET collection == colls1[key]
        is_depot_location ==
            depot_location # NoPos /\ location.coordinates = depot_location
        distance ==
            IF collection.stops = <<>>
            THEN (IF depot_location # NoPos /\ ~is_depot_location
                  THEN calculate_distance(depot_location, location.coordinates)
                  ELSE 0)
            ELSE calculate_distance(collection.stops[Len(collection.stops)].coordinates,
                                    location.coordinates)
        prev_location ==
            IF collection.stops # <<>>
            THEN collection.stops[Len(collection.stops)].coordinates
            ELSE NoPos
        times == calculate_stop_times(location, depot_location, prev_location,
                                      collection_time_minutes, self.speed_kph)
        prev_total_time == times1[d]
        total_time == prev_total_time
                      + calculate_total_time(times[1], times[2], times[3])
        flags1 ==
            IF total_time > self.max_daily_time
            THEN (IF d \in DOMAIN self.exceeds_daily_time_map
                  THEN [ self.exceeds_daily_time_map EXCEPT ![d] = BreachFlag ]
                  ELSE (d :> BreachFlag) @@ self.exceeds_daily_time_map)
            ELSE self.exceeds_daily_time_map
    IN  << [ self1 EXCEPT
               !.vehicle_collections[key] = add_stop(collection, location, distance),
               !.exceeds_daily_time_map = flags1,
               !.total_times[d] = StoredTotalTime(prev_total_time, total_time),
               !.total_stops = @ + 1 ],
           TRUE >>

\* the projected total time register_collection compares with max_daily_time
\* for this call (lines 96-106), for a call that is not refused
ProjectedTotalTime(self, vehicle_id, d, trip, location, depot_location, collection_time_minutes) ==
    LET key == <<vehicle_id, d, trip>>
        stops == IF key \in DOMAIN self.vehicle_collections
                 THEN self.vehicle_collections[key].stops ELSE <<>>
        prev_location == IF stops # <<>> THEN stops[Len(stops)].coordinates ELSE NoPos
        times == calculate_stop_times(location, depot_location, prev_location,
                                      collection_time_minutes, self.speed_kph)
        prev_total_time == IF d \in DOMAIN self.total_times
                           THEN self.total_times[d] ELSE 0
    IN  prev_total_time + calculate_total_time(times[1], times[2], times[3])

-----------------------------------------------------------------------------
(* The inputs of a run.                                                    *)

NumLocs == 5      \* locations in the registry of a general run
LedgerStops == 3  \* stops a direct caller of the ledger registers

Days == {1, 2}    \* the schedule frequencies (= day indices) in use
Trips == {1, 2}   \* the trip numbers a direct caller of the ledger uses
DepotLocation == 0

\* Location(id, coordinates, wco_amount, disposal_schedule)
Location(id, coordinates, wco_amount, disposal_schedule) ==
    [ id |-> id, coordinates |-> coordinates, wco_amount |-> wco_amount,
      disposal_schedule |-> disposal_schedule ]

\* Vehicle(id, capacity, depot_location)
Vehicle(id, capacity) ==
    [ id |-> id, capacity |-> capacity, depot_location |-> DepotLocation ]

\* ScheduleEntry(frequency, collection_time_minutes)
ScheduleEntry(frequency, collection_time_minutes) ==
    [ frequency |-> frequency, collection_time_minutes |-> collection_time_minutes ]

\* where the i-th location of a registry lies (km from the depot)
CoordinatesOf(i) == ((i * 3) % 7) + 1

Fleets ==
    { <<Vehicle(1, 100)>>,
      <<Vehicle(1, 100), Vehicle(2, 50)>> }

\* wco amounts: all locations carry 20 litres, except that location `special`
\* (0: none) carries `amount`
WcoProfiles ==
    { [ i \in 1..NumLocs |-> IF i = p[1] THEN p[2] ELSE 20 ] :
        p \in ({0, 1, NumLocs} \X {60, 150}) }

\* disposal schedules: the last m locations are on schedule 2, the others on 1
ScheduleProfiles ==
    { [ i \in 1..NumLocs |-> IF i > NumLocs - m THEN 2 ELSE 1 ] : m \in {0, 1, NumLocs} }

Registries ==
    { [ i \in 1..NumLocs |-> Location(i, CoordinatesOf(i), w[i], f[i]) ] :
        w \in WcoProfiles, f \in ScheduleProfiles }

\* scenario S3 of the specification: ten locations on schedule 3 ... here
\* schedule index 2, one vehicle of capacity 1000
RegistryS3 == [ i \in 1..10 |-> Location(i, CoordinatesOf(i), 20, 2) ]
FleetS3 == <<Vehicle(1, 1000)>>

\* the fleets and the registry of the runs with the OR-Tools solver
FleetsORTools ==
    { <<Vehicle(1, 100)>>,
      <<Vehicle(1, 100), Vehicle(2, 100)>> }

RegistriesORTools ==
    { [ i \in 1..NumLocs |-> Location(i, CoordinatesOf(i), 20, 1) ] }

ScheduleLists ==
    { <<ScheduleEntry(1, 15)>>,
      <<ScheduleEntry(1, 15), ScheduleEntry(2, 15)>>,
      <<ScheduleEntry(2, 15), ScheduleEntry(1, 15)>>,
      <<ScheduleEntry(1, 15), ScheduleEntry(1, 15)>> }

MaxDailyTimes == {30, MAX_DAILY_TIME}

Solvers == {"none", "basic", "nearest", "greedy", "schedule", "ortools"}

by_id(id) == locations[id]

-----------------------------------------------------------------------------
(* clustering/geographic_clusterer.py: GeographicClusterer                 *)

target_clusters == 5

\* stable insertion of x into a sequence sorted by the integer key `key`
RECURSIVE InsertByKey(_, _, _)
InsertByKey(sorted, x, key) ==
    IF sorted = <<>> THEN <<x>>
    ELSE IF key[sorted[Len(sorted)]] <= key[x] THEN Append(sorted, x)
    ELSE Append(InsertByKey(SubSeq(sorted, 1, Len(sorted) - 1), x, key),
                sorted[Len(sorted)])

\* Python's sorted(s, key=...) / list.sort(key=...): a stable sort
RECURSIVE SortByKey(_, _)
SortByKey(s, key) ==
    IF s = <<>> THEN <<>>
    ELSE InsertByKey(SortByKey(SubSeq(s, 1, Len(s) - 1), key), s[Len(s)], key)

\* GeographicClusterer.estimate_collection_time: always max_time_per_stop,
\* which the scheduler sets to MAX_STOP_TIME
MAX_STOP_TIME == 15
clusterer_estimate_collection_time(location) == MAX_STOP_TIME

\* the members of one cluster, in the order cluster_locations leaves them:
\* sorted by (-wco_amount, coordinates), then by -wco_amount in _create_cluster
create_cluster(members) ==
    SortByKey(members,
              [ id \in DOMAIN locations |->
                    (0 - locations[id].wco_amount) * 1000 + locations[id].coordinates ])

\* KMeans(n_clusters=2).fit_predict(coords): the labellings at which Lloyd's
\* iteration can stop.  On a line these are the splits at a threshold t where
\* the midpoint of the two centroids separates the two groups; the label of
\* the nearer group is either 0 or 1.  When all points coincide there is one
\* label.  (More than two clusters never score better: the size penalty of
\* _evaluate_geographic_clustering grows by 0.5*k*(k-1) while the distance
\* terms, in degrees, are small.)
KMeansLabels(locs) ==
    LET idx == DOMAIN locs
        pos(i) == locations[locs[i]].coordinates
        Low(t) == { i \in idx : pos(i) <= t }
        CountLow(t) == Cardinality(Low(t))
        SumLow(t) == SumSeq([ i \in idx |-> IF pos(i) <= t THEN pos(i) ELSE 0 ])
        SumHigh(t) == SumSeq([ i \in idx |-> IF pos(i) > t THEN pos(i) ELSE 0 ])
        MinHigh(t) == CHOOSE m \in { pos(i) : i \in idx \ Low(t) } :
                          \A i \in idx \ Low(t) : m <= pos(i)
        Stable(t) ==
            LET n1 == CountLow(t)
                n2 == Len(locs) - n1
                mid2 == SumLow(t) * n2 + SumHigh(t) * n1   \* 2*n1*n2 times the midpoint
            IN  /\ n2 > 0
                /\ 2 * n1 * n2 * t <= mid2
                /\ mid2 <= 2 * n1 * n2 * MinHigh(t)
        thresholds == { t \in { pos(i) : i \in idx } : Stable(t) }
    IN  IF thresholds = {}
        THEN { [ i \in idx |-> 0 ] }
        ELSE { [ i \in idx |-> IF pos(i) <= t THEN near ELSE 1 - near ] :
                   t \in thresholds, near \in {0, 1} }

\* cluster_locations(locations, pure_geographic=True): the possible results,
\* each a sequence of clusters sorted by cluster id
cluster_locations(locs) ==
    IF locs = <<>> THEN { <<>> }
    ELSE IF Min(Len(locs), target_clusters) < 2 THEN { << create_cluster(locs) >> }
    ELSE { LET members(label) ==
                   SelectSeqIdx(locs, [ i \in DOMAIN locs |-> labels[i] = label ], 1)
           IN  IF members(1) = <<>> THEN << create_cluster(members(0)) >>
               ELSE << create_cluster(members(0)), create_cluster(members(1)) >> :
           labels \in KMeansLabels(locs) }

-----------------------------------------------------------------------------
(* scheduling/collection_scheduler.py: CollectionScheduler                 *)

SCHEDULER_MAX_DAILY_TIME == 420
MAX_TRAVEL_TIME == 240

\* Vehicle.get_remaining_capacity(current_load)
get_remaining_capacity(vehicle, current_load) == vehicle.capacity - current_load

\* CollectionScheduler._estimate_travel_time(distance_km), minutes
scheduler_estimate_travel_time(distance_km) == (distance_km * 60) \div AVERAGE_SPEED_KPH

\* the assignment score of lines 211-221 as an exact fraction <<numerator,
\* denominator>> of ten times the score.  At 30 km/h the travel time is
\* 2*distance_km minutes, so traffic_factor = 30/(30+distance_km) and
\* 10*score = 5/(1+d) + 2*wco/remaining + 2*(420-total_time)/420 + 30/(30+d).
AssignmentScore(distance_km, wco_amount, remaining_capacity, total_time) ==
    LET a == 1 + distance_km
        b == 30 + distance_km
        m == SCHEDULER_MAX_DAILY_TIME
    IN  << 5 * b * remaining_capacity * m
           + 2 * wco_amount * a * b * m
           + 2 * (m - total_time) * a * b * remaining_capacity
           + 30 * a * remaining_capacity * m,
           a * b * remaining_capacity * m >>

\* p[1]/p[2] > q[1]/q[2] for fractions with positive denominators, by
\* comparing integer parts and then the inverted remainders
RECURSIVE ScoreGreater(_, _)
ScoreGreater(p, q) ==
    LET q1 == p[1] \div p[2]
        q2 == q[1] \div q[2]
        r1 == p[1] % p[2]
        r2 == q[1] % q[2]
    IN  IF q1 # q2 THEN q1 > q2
        ELSE IF r1 = 0 THEN FALSE
        ELSE IF r2 = 0 THEN TRUE
        ELSE ScoreGreater(<<q[2], r2>>, <<p[2], r1>>)

\* lines 180-225: the scan over the vehicles from index v_idx on; returns the
\* best vehicle index, 0 standing for -1 (none)
RECURSIVE FindBestVehicle(_, _, _, _, _, _)
FindBestVehicle(vs, location, st, v_idx, best_vehicle, best_score) ==
    IF v_idx > Len(vs) THEN best_vehicle
    ELSE
    LET vehicle == vs[v_idx]
        remaining_capacity == get_remaining_capacity(vehicle, st.vehicle_loads[v_idx])
        collection_time == Min(MAX_STOP_TIME, clusterer_estimate_collection_time(location))
        current_time == st.vehicle_times[v_idx]
        route == st.assignments[v_idx]
        distance_km ==
            IF route # <<>>
            THEN calculate_distance(locations[route[Len(route)]].coordinates,
                                    location.coordinates)
            ELSE calculate_distance(vehicle.depot_location, location.coordinates)
        travel_time == scheduler_estimate_travel_time(distance_km)
        total_time == current_time + collection_time + travel_time
        skip == \/ location.wco_amount > remaining_capacity
                \/ collection_time > MAX_STOP_TIME
                \/ total_time > SCHEDULER_MAX_DAILY_TIME
                \/ travel_time > MAX_TRAVEL_TIME
        score == AssignmentScore(distance_km, location.wco_amount,
                                 remaining_capacity, total_time)
    IN  IF ~skip /\ ScoreGreater(score, best_score)
        THEN FindBestVehicle(vs, location, st, v_idx + 1, v_idx, score)
        ELSE FindBestVehicle(vs, location, st, v_idx + 1, best_vehicle, best_score)

\* line 247: the location fits into what is left of the vehicle's capacity,
\* and the test without the capacity
HasRoomAlways(vehicle, vehicle_load, location) == TRUE
HasRoom(vehicle, vehicle_load, location) ==
    vehicle_load + location.wco_amount <= vehicle.capacity

\* lines 246-255: the first vehicle with room in capacity and in time, or 0
RECURSIVE FindFirstVehicle(_, _, _, _)
FindFirstVehicle(vs, location, st, v_idx) ==
    IF v_idx > Len(vs) THEN 0
    ELSE IF /\ HasRoom(vs[v_idx], st.vehicle_loads[v_idx], location)
            /\ st.vehicle_times[v_idx] + clusterer_estimate_collection_time(location)
                   <= SCHEDULER_MAX_DAILY_TIME
    THEN v_idx
    ELSE FindFirstVehicle(vs, location, st, v_idx + 1)

assign_to(st, v_idx, location) ==
    [ st EXCEPT !.assignments[v_idx] = Append(@, location.id),
                !.vehicle_loads[v_idx] = @ + location.wco_amount,
                !.vehicle_times[v_idx] = @ + clusterer_estimate_collection_time(location) ]

\* lines 172-233 for the locations `locs` (ids) of one cluster, in sorted order
RECURSIVE FirstPass(_, _, _)
FirstPass(vs, locs, st) ==
    IF locs = <<>> THEN st
    ELSE LET location == locations[Head(locs)]
             best_vehicle == FindBestVehicle(vs, location, st, 1, 0, <<-1, 1>>)
         IN  FirstPass(vs, Tail(locs),
                       IF best_vehicle > 0
                       THEN assign_to(st, best_vehicle, location)
                       ELSE [ st EXCEPT !.unassigned_locations = Append(@, location.id) ])

\* lines 241-258 for the unassigned locations, sorted by -wco_amount, and a
\* second pass that assigns nothing
SecondPassNone(vs, locs, st) == st
RECURSIVE SecondPass(_, _, _)
SecondPass(vs, locs, st) ==
    IF locs = <<>> THEN st
    ELSE LET location == locations[Head(locs)]
             v_idx == FindFirstVehicle(vs, location, st, 1)
         IN  SecondPass(vs, Tail(locs),
                        IF v_idx > 0 THEN assign_to(st, v_idx, location) ELSE st)

\* lines 160-169: the clusters in turn, each sorted by (distance from the
\* depot of vehicles[0], -wco_amount, collection time)
RECURSIVE SortedClusters(_, _)
SortedClusters(vs, clusters) ==
    IF clusters = <<>> THEN <<>>
    ELSE SortByKey(Head(clusters),
                   [ id \in DOMAIN locations |->
                       calculate_distance(locations[id].coordinates, vs[1].depot_location)
                           * 1000000
                       + (1000 - locations[id].wco_amount) * 100
                       + clusterer_estimate_collection_time(locations[id]) ])
         \o SortedClusters(vs, Tail(clusters))

\* lines 152-258 of optimize_vehicle_assignments for a non-empty list: the
\* possible pairs of the locations the scoring pass leaves unassigned, in the
\* order of line 238, and the assignments after the second pass, one pair
\* per result of the clustering
assignment_passes(vs, locs) ==
    { LET st0 == [ assignments |-> [ v \in DOMAIN vs |-> <<>> ],
                   vehicle_loads |-> [ v \in DOMAIN vs |-> 0 ],
                   vehicle_times |-> [ v \in DOMAIN vs |-> 0 ],
                   unassigned_locations |-> <<>> ]
          st1 == FirstPass(vs, SortedClusters(vs, clusters), st0)
          unassigned == SortByKey(st1.unassigned_locations,
                                  [ id \in DOMAIN locations |->
                                        0 - locations[id].wco_amount ])
          st2 == SecondPass(vs, unassigned, st1)
      IN  [ unassigned_locations |-> unassigned,
            assignments |-> List(st2.assignments, Len(vs)) ] :
      clusters \in cluster_locations(locs) }

\* optimize_vehicle_assignments(vehicles, day, locations): the possible
\* results, one per result of the clustering; each a sequence (one entry per
\* vehicle) of sequences of location ids
optimize_vehicle_assignments(vs, d, locs) ==
    IF locs = <<>> THEN { List([ v \in DOMAIN vs |-> <<>> ], Len(vs)) }
    ELSE { p.assignments : p \in assignment_passes(vs, locs) }

-----------------------------------------------------------------------------
(* solvers/: what solve() returns.  A route is a sequence of location ids   *)
(* with NoneLoc for the depot placeholder None.  A result is a record: the *)
(* routes when solve() returns, or the way it fails to return.             *)

Returns(routes) == [ status |-> "returns", routes |-> routes ]
Diverges == [ status |-> "diverges", routes |-> <<>> ]
Raises == [ status |-> "raises", routes |-> <<>> ]

\* Location.distance_from_depot as set by CVRP._initialize_location_registry
distance_from_depot(id) ==
    calculate_distance(vehicles[1].depot_location, locations[id].coordinates)

\* a solver that routes every location of the registry, given or not
RegistrySolver_solve(locs, vs) ==
    Returns(List([ v \in DOMAIN vs |->
                     <<NoneLoc>> \o List([ i \in DOMAIN locations |-> i ], Len(locations))
                                \o <<NoneLoc>> ], Len(vs)))

\* BasicSolver.solve: the same route, all locations, for every vehicle
BasicSolver_solve(locs, vs) ==
    Returns(List([ v \in DOMAIN vs |-> <<NoneLoc>> \o locs \o <<NoneLoc>> ], Len(vs)))

\* ScheduleAwareSolver.solve: the first vehicle takes every location; for the
\* other vehicles no location is available and no route is appended
ScheduleAwareSolver_solve(locs, vs) ==
    Returns(IF locs = <<>> \/ vs = <<>> THEN <<>>
            ELSE << <<NoneLoc>> \o locs \o <<NoneLoc>> >>)

\* the route ends at the depot
EndAtDepot(route) ==
    IF route[Len(route)] # NoneLoc THEN Append(route, NoneLoc) ELSE route

\* NearestNeighborSolver.solve, lines 34-46: the scan over remaining_locs (a
\* set of small ints: ascending order), which may append a depot return and
\* reset load and position while it scans
RECURSIVE NNScan(_, _, _, _)
NNScan(locs, vehicle, idxs, st) ==
    IF idxs = <<>> THEN st
    ELSE
    LET location == locations[locs[Head(idxs)]]
        depot == st.depot_location
        reset == /\ st.current_load + location.wco_amount > vehicle.capacity
                 /\ st.current_pos # depot
        st1 == IF reset
               THEN [ st EXCEPT !.route = Append(@, NoneLoc),
                                !.current_load = 0,
                                !.current_pos = depot ]
               ELSE st
        dist == calculate_distance(st1.current_pos, location.coordinates)
        st2 == IF st1.best_loc_idx = 0 \/ dist < st1.best_distance
               THEN [ st1 EXCEPT !.best_distance = dist, !.best_loc_idx = Head(idxs) ]
               ELSE st1
    IN  NNScan(locs, vehicle, Tail(idxs), st2)

\* lines 30-60: the while loop over remaining_locs (ascending indices)
RECURSIVE NNRoute(_, _, _, _)
NNRoute(locs, vehicle, remaining_locs, st) ==
    IF remaining_locs = <<>> THEN st.route
    ELSE
    LET depot == st.depot_location
        sc == NNScan(locs, vehicle, remaining_locs,
                     [ st EXCEPT !.best_loc_idx = 0, !.best_distance = 0 ])
        best_loc == locations[locs[sc.best_loc_idx]]
        load == sc.current_load + best_loc.wco_amount
        full == 10 * load >= 9 * vehicle.capacity
        st1 == [ sc EXCEPT
                   !.route = IF full THEN @ \o <<best_loc.id, NoneLoc>>
                             ELSE Append(@, best_loc.id),
                   !.current_load = IF full THEN 0 ELSE load,
                   !.current_pos = IF full THEN depot ELSE best_loc.coordinates ]
    IN  NNRoute(locs, vehicle,
                SelectSeq(remaining_locs, LAMBDA i : i # sc.best_loc_idx), st1)

NearestNeighborSolver_solve(locs, vs) ==
    Returns(List([ v \in DOMAIN vs |->
        EndAtDepot(NNRoute(locs, vs[v], List([ i \in DOMAIN locs |-> i ], Len(locs)),
                           [ route |-> <<NoneLoc>>, current_load |-> 0,
                             current_pos |-> vs[1].depot_location,
                             depot_location |-> vs[1].depot_location,
                             best_loc_idx |-> 0, best_distance |-> 0 ])) ],
        Len(vs)))

\* GreedySolver.solve, lines 19-22: the priority of a location index, and the
\* order of two heap entries (priority, index)
GreedyPriority(locs, i) ==
    (0 - distance_from_depot(locs[i])) * 100000 - locations[locs[i]].wco_amount

HeapLess(locs, i, j) ==
    \/ GreedyPriority(locs, i) < GreedyPriority(locs, j)
    \/ GreedyPriority(locs, i) = GreedyPriority(locs, j) /\ i < j

\* heapq.heappush: the new item sifts up from position pos (1-based)
RECURSIVE SiftUp(_, _, _, _)
SiftUp(locs, heap, pos, item) ==
    IF pos > 1 /\ HeapLess(locs, item, heap[pos \div 2])
    THEN SiftUp(locs, [ heap EXCEPT ![pos] = heap[pos \div 2] ], pos \div 2, item)
    ELSE [ heap EXCEPT ![pos] = item ]

\* the heap list after pushing the indices 1..n in turn
RECURSIVE location_priorities(_, _)
location_priorities(locs, n) ==
    IF n = 0 THEN <<>>
    ELSE SiftUp(locs, Append(location_priorities(locs, n - 1), n), n, n)

\* lines 43-53: the position in `available` of the nearest location that
\* fits, 0 if none fits
RECURSIVE GreedyScan(_, _, _, _, _, _, _)
GreedyScan(locs, available, i, remaining_capacity, current_pos, best_idx, best_distance) ==
    IF i > Len(available) THEN best_idx
    ELSE
    LET location == locations[locs[available[i]]]
        dist == calculate_distance(current_pos, location.coordinates)
    IN  IF location.wco_amount <= remaining_capacity
           /\ (best_idx = 0 \/ dist < best_distance)
        THEN GreedyScan(locs, available, i + 1, remaining_capacity, current_pos, i, dist)
        ELSE GreedyScan(locs, available, i + 1, remaining_capacity, current_pos,
                        best_idx, best_distance)

\* GreedySolver._build_route: the route, or <<>> when the while loop never
\* ends (a location larger than the whole vehicle is retried forever)
RECURSIVE build_route(_, _, _, _, _, _)
build_route(locs, vehicle, available, remaining_capacity, current_pos, route) ==
    IF available = <<>> THEN EndAtDepot(route)
    ELSE
    LET best_idx == GreedyScan(locs, available, 1, remaining_capacity, current_pos, 0, 0)
        best_location == locations[locs[available[best_idx]]]
        left == remaining_capacity - best_location.wco_amount
        rest == SelectSeqIdx(available, [ i \in DOMAIN available |-> i # best_idx ], 1)
    IN  IF best_idx = 0
        THEN IF remaining_capacity = vehicle.capacity /\ current_pos = vehicle.depot_location
             THEN <<>>
             ELSE build_route(locs, vehicle, available, vehicle.capacity,
                              vehicle.depot_location, Append(route, NoneLoc))
        ELSE IF left < 100
        THEN build_route(locs, vehicle, rest, vehicle.capacity, vehicle.depot_location,
                         route \o <<best_location.id, NoneLoc>>)
        ELSE build_route(locs, vehicle, rest, left, best_location.coordinates,
                         Append(route, best_location.id))

GreedySolver_solve(locs, vs) ==
    LET routes == [ v \in DOMAIN vs |->
                      build_route(locs, vs[v], location_priorities(locs, Len(locs)),
                                  vs[v].capacity, vs[1].depot_location, <<NoneLoc>>) ]
    IN  IF \E v \in DOMAIN vs : routes[v] = <<>> THEN Diverges
        ELSE Returns(List(routes, Len(vs)))

\* ORToolsSolver.solve.  The routing model takes locations[0] as its depot
\* node, so a solution visits locations[1:] only; each of them is on the route
\* of exactly one vehicle (there is no disjunction over the nodes), a route
\* carries at most the capacity of its vehicle, and the order along a route is
\* the library's choice.  The time dimension (cumul <= 420 minutes) does not
\* bind for the route lengths of this model.  The transitions removed for the
\* one-way roads (lines 64-77) are not taken.  _process_solution gives an
\* unused vehicle the route [].  Without a solution the fallbacks of lines
\* 184-191 apply.
\* lines 66-69: next(i for i, loc in enumerate(self.locations) if
\* loc.coordinates == ...), 0 when there is none (StopIteration)
RECURSIVE first_index(_, _, _)
first_index(locs, coordinates, i) ==
    IF i > Len(locs) THEN 0
    ELSE IF locations[locs[i]].coordinates = coordinates THEN i
    ELSE first_index(locs, coordinates, i + 1)

\* lines 64-77: the transitions <<to, from>> (as location ids) taken out of
\* the successor variables, one per one-way road whose two ends are found
ForbiddenTransitions(locs) ==
    { <<locs[first_index(locs, constraints[c][2], 1)],
        locs[first_index(locs, constraints[c][1], 1)]>> :
        c \in { c \in DOMAIN constraints :
                   /\ first_index(locs, constraints[c][1], 1) # 0
                   /\ first_index(locs, constraints[c][2], 1) # 0 } }

\* the stops of one vehicle respect the removed transitions; the start node
\* of the first vehicle is the node of locations[0]
RespectsOneWay(locs, stops, v) ==
    /\ \A k \in 1..(Len(stops) - 1) :
           <<stops[k], stops[k + 1]>> \notin ForbiddenTransitions(locs)
    /\ ( v = 1 /\ stops # <<>> )
           => <<locs[1], stops[1]>> \notin ForbiddenTransitions(locs)

ORToolsSolutions(locs, vs) ==
    LET customers == Tail(locs)
        n == Len(customers)
        orders == { o \in [ 1..n -> 1..n ] : \A i, j \in 1..n : i # j => o[i] # o[j] }
        fits(assign) ==
            \A v \in DOMAIN vs :
                SumSeq([ i \in 1..n |-> IF assign[i] = v
                                        THEN locations[customers[i]].wco_amount ELSE 0 ])
                    <= vs[v].capacity
        route(assign, o, v) ==
            LET stops == SelectSeqIdx(List([ k \in 1..n |-> customers[o[k]] ], n),
                                      [ k \in 1..n |-> assign[o[k]] = v ], 1)
            IN  IF stops = <<>> THEN <<>> ELSE <<NoneLoc>> \o stops \o <<NoneLoc>>
        one_way(r) ==
            \A v \in DOMAIN vs :
                RespectsOneWay(locs, SelectSeq(r[v], LAMBDA id : id # NoneLoc), v)
    IN  { r \in { List([ v \in DOMAIN vs |-> route(assign, o, v) ], Len(vs)) :
                     assign \in { a \in [ 1..n -> DOMAIN vs ] : fits(a) }, o \in orders } :
              one_way(r) }

ORToolsSolver_solve(locs, vs) ==
    IF Len(locs) = 1 THEN { Returns(<< <<NoneLoc, locs[1], NoneLoc>> >>) }
    ELSE
    LET num_locations == Len(locs)
        min_required_vehicles == Max(1, (num_locations + 2) \div 3)
        num_vehicles == IF Len(vs) = 1 THEN 1 ELSE Max(min_required_vehicles, Len(vs))
        solutions == ORToolsSolutions(locs, vs)
    IN  IF num_vehicles # Len(vs)
        THEN \* vehicle_capacities has len(self.vehicles) entries for
             \* num_vehicles vehicles: AddDimensionWithVehicleCapacity fails
             { Raises }
        ELSE IF solutions # {} THEN { Returns(r) : r \in solutions }
        ELSE IF num_vehicles = 1
        THEN { Returns(<< <<NoneLoc>>
                          \o SortByKey(locs, [ id \in DOMAIN locations |->
                                                  distance_from_depot(id) ])
                          \o <<NoneLoc>> >>) }
        ELSE IF num_locations <= 10
        THEN { Returns(<< <<NoneLoc>> \o locs \o <<NoneLoc>> >>) }
        ELSE { Returns(<<>>) }

-----------------------------------------------------------------------------
(* cvrp.py: CVRP.optimize_routes                                           *)

\* the `id` class attribute of a solver class: only NearestNeighborSolver
\* overrides BaseSolver.id
solver_id(cls) ==
    IF cls = "nearest" THEN "nearest_neighbor_solver" ELSE "base_solver"

minimum_optimization_threshold == 5

solve(cls, locs, vs) ==
    CASE cls = "basic" -> { BasicSolver_solve(locs, vs) }
      [] cls = "schedule" -> { ScheduleAwareSolver_solve(locs, vs) }
      [] cls = "nearest" -> { NearestNeighborSolver_solve(locs, vs) }
      [] cls = "greedy" -> { GreedySolver_solve(locs, vs) }
      [] cls = "ortools" -> ORToolsSolver_solve(locs, vs)

\* lines 90-104: one solver per vehicle, its first route is kept
RECURSIVE optimize_each(_, _, _)
optimize_each(cls, assignments, v_idx) ==
    IF v_idx > Len(assignments) THEN { Returns(<<>>) }
    ELSE
    LET heads == IF assignments[v_idx] = <<>> THEN { Returns(<< <<>> >>) }
                 ELSE { IF r.status # "returns" THEN r
                        ELSE Returns(<< IF r.routes # <<>> THEN r.routes[1] ELSE <<>> >>) :
                        r \in solve(cls, assignments[v_idx], <<vehicles[v_idx]>>) }
    IN  { IF h.status # "returns" THEN h
          ELSE IF t.status # "returns" THEN t
          ELSE Returns(h.routes \o t.routes) :
          h \in heads, t \in optimize_each(cls, assignments, v_idx + 1) }

\* optimize_routes(vehicle_assignments, stop_time, speed_kph): the possible results
optimize_routes(assignments) ==
    IF solver_class = "none" THEN { Returns(assignments) }
    ELSE IF Len(Flatten(assignments)) < minimum_optimization_threshold
    THEN { Returns(assignments) }
    ELSE IF solver_id(solver_class) = solver_id("ortools")
    THEN solve(solver_class, Flatten(assignments), vehicles)
    ELSE optimize_each(solver_class, assignments, 1)

-----------------------------------------------------------------------------
(* cvrp.py: CVRP.generate_analysis_data and CVRP._process_vehicle_route.   *)
(* A StopInfo keeps the fields the totals are computed from; the id of a   *)
(* synthetic depot stop ("depot_start_..", "depot_end_..") is NoneLoc.     *)

\* TripCollection.get_vehicle_route(vehicle_id, day).stops: the stops of the
\* vehicle's CollectionData of the day, one CollectionData after the other.
\* The dict is walked in insertion order; the model takes the trips in
\* ascending order, which leaves every trip's stops contiguous as well.
get_vehicle_route(self, vehicle_id, d) ==
    LET trips == Ascending({ k[3] : k \in { k \in DOMAIN self.vehicle_collections :
                                              k[1] = vehicle_id /\ k[2] = d } })
    IN  Flatten([ i \in 1..Len(trips) |->
                    self.vehicle_collections[<<vehicle_id, d, trips[i]>>].stops ])

\* lines 488-503 and 533-548: a synthetic depot stop
DepotStopInfo(vehicle, trip, distance_from_prev) ==
    [ name |-> "Depot", location_id |-> NoneLoc, coordinates |-> vehicle.depot_location,
      wco_amount |-> 0, trip_number |-> trip, distance_from_prev |-> distance_from_prev ]

\* lines 510-525: the StopInfo of a registered stop
RealStopInfo(stop) ==
    [ name |-> "Location", location_id |-> stop.location_id, coordinates |-> stop.coordinates,
      wco_amount |-> stop.amount_collected, trip_number |-> stop.trip_number,
      distance_from_prev |-> stop.distance_from_prev ]

\* line 529: the stop at (1-based) index i is the last one of its trip in the
\* route
ends_trip(stops, i) ==
    \/ (i + 1 <= Len(stops) /\ stops[i].trip_number # stops[i + 1].trip_number)
    \/ i = Len(stops)

\* line 530: the way back to the depot, and a way back of no length
depot_end_distance_none(stop, vehicle) == 0
depot_end_distance(stop, vehicle) ==
    calculate_distance(stop.coordinates, vehicle.depot_location)

\* lines 482-551: stops_data from the stop at index i on
RECURSIVE stops_data_from(_, _, _, _, _)
stops_data_from(vehicle, stops, trip, i, should_add_depot_start) ==
    IF i > Len(stops) THEN <<>>
    ELSE IF stops[i].trip_number # trip
    THEN stops_data_from(vehicle, stops, trip, i + 1, should_add_depot_start)
    ELSE LET stop == stops[i]
             depot_start ==
                 IF should_add_depot_start
                 THEN << DepotStopInfo(vehicle, stop.trip_number, 0) >>
                 ELSE <<>>
             depot_end ==
                 IF ends_trip(stops, i)
                 THEN << DepotStopInfo(vehicle, stop.trip_number,
                                       depot_end_distance(stop, vehicle)) >>
                 ELSE <<>>
         IN  depot_start \o << RealStopInfo(stop) >> \o depot_end
             \o stops_data_from(vehicle, stops, trip, i + 1, ends_trip(stops, i))

\* _process_vehicle_route(vehicle, route, day, trip_number, locations): the
\* VehicleRouteInfo (the keyword road_paths, which VehicleRouteInfo does not
\* declare, is dropped)
process_vehicle_route(vehicle, stops, d, trip) ==
    LET stops_data == stops_data_from(vehicle, stops, trip, 1, TRUE)
    IN  [ vehicle_id |-> vehicle.id,
          collection_day |-> d,
          stops |-> stops_data,
          total_stops |-> Len(stops_data),
          total_collected |->
              SumSeq([ i \in DOMAIN stops_data |-> stops_data[i].wco_amount ]),
          total_distance |->
              SumSeq([ i \in DOMAIN stops_data |-> stops_data[i].distance_from_prev ]) ]

\* lines 406-428: trip_vehicles after the vehicles from vehicle_idx on.  Each
\* vehicle with stops on the day adds the trip numbers of its stops as keys
\* and then appends one VehicleRouteInfo under every key present.  `replaced`
\* records that line 426 ran: it reads vehicle_routes, which is unbound on
\* the first day.
RECURSIVE group_by_trip(_, _, _, _, _)
group_by_trip(self, vs, d, vehicle_idx, acc) ==
    IF vehicle_idx > Len(vs) THEN acc
    ELSE
    LET vehicle == vs[vehicle_idx]
        stops == get_vehicle_route(self, vehicle.id, d)
        keys == DOMAIN acc.trip_vehicles \cup { stops[i].trip_number : i \in DOMAIN stops }
        listed(t) == IF t \in DOMAIN acc.trip_vehicles THEN acc.trip_vehicles[t] ELSE <<>>
    IN  IF stops = <<>> THEN group_by_trip(self, vs, d, vehicle_idx + 1, acc)
        ELSE group_by_trip(self, vs, d, vehicle_idx + 1,
                 [ trip_vehicles |->
                       [ t \in keys |->
                           IF vehicle_idx - 1 < Len(listed(t)) THEN listed(t)
                           ELSE Append(listed(t),
                                       process_vehicle_route(vehicle, stops, d, t)) ],
                   replaced |->
                       acc.replaced \/ \E t \in keys : vehicle_idx - 1 < Len(listed(t)) ])

\* lines 395-472: the RouteAnalysisResult of one day
day_result(self, vs, d, base_day) ==
    LET grouped == group_by_trip(self, vs, d, 1, [ trip_vehicles |-> <<>>, replaced |-> FALSE ])
        trip_nums == Ascending(DOMAIN grouped.trip_vehicles)
        routes == Flatten([ i \in 1..Len(trip_nums) |-> grouped.trip_vehicles[trip_nums[i]] ])
    IN  [ collection_day |-> d,
          base_schedule_day |-> base_day,
          trips |-> grouped.trip_vehicles,
          replaced |-> grouped.replaced,
          total_trips |-> Len(trip_nums),
          total_stops |-> SumSeq([ i \in DOMAIN routes |-> routes[i].total_stops ]),
          total_collected |-> SumSeq([ i \in DOMAIN routes |-> routes[i].total_collected ]),
          total_distance |-> SumSeq([ i \in DOMAIN routes |-> routes[i].total_distance ]) ]

\* generate_analysis_data(..., collection_tracker, locations, base_day): one
\* result per day >= base_day that has a key in the ledger, in ascending order
generate_analysis_data(self, vs, base_day) ==
    LET schedule_days == Ascending({ k[2] : k \in { k \in DOMAIN self.vehicle_collections :
                                                      k[2] >= base_day } })
    IN  [ i \in 1..Len(schedule_days) |-> day_result(self, vs, schedule_days[i], base_day) ]

-----------------------------------------------------------------------------
(* cvrp.py: CVRP.process                                                   *)

\* the ids of the locations (not None) of a list of routes
StopIds(routes) == { id \in Range(Flatten(routes)) : id # NoneLoc }

\* the first index of a smallest element of a sequence of integers (min(range(..), key=..))
RECURSIVE ArgMin(_, _, _)
ArgMin(s, i, best) ==
    IF i > Len(s) THEN best
    ELSE ArgMin(s, i + 1, IF s[i] < s[best] THEN i ELSE best)

\* lines 214-218: the last location of the initial assignments that is not
\* among the solver's routes, NoneLoc if there is none
last_missing(initial, unique_assignment_loc_ids) ==
    LET missing == SelectSeq(Flatten(initial),
                             LAMBDA id : id \notin unique_assignment_loc_ids)
    IN  IF missing = <<>> THEN NoneLoc ELSE missing[Len(missing)]

\* lines 202-256, lazy patching: the routes the registration loop walks, or
\* Raises when min() is applied to an empty range (line 241)
lazy_patch(initial, routes, remaining) ==
    LET total_initial_assignments_len == Len(Flatten(initial))
        unique_assignment_loc_ids == StopIds(routes)
        last_location == last_missing(initial, unique_assignment_loc_ids)
        nearest_vehicle_idx ==
            ArgMin([ i \in DOMAIN vehicles |->
                       calculate_distance(vehicles[i].depot_location,
                                          locations[last_location].coordinates) ], 1, 1)
        total_wco_before_add ==
            SumSeq([ k \in DOMAIN Flatten(routes) |->
                       IF Flatten(routes)[k] = NoneLoc THEN 0
                       ELSE locations[Flatten(routes)[k]].wco_amount ])
        target == routes[nearest_vehicle_idx]
        insert_index ==
            ArgMin([ i \in DOMAIN target |->
                       calculate_distance(
                           IF target[i] # NoneLoc THEN locations[target[i]].coordinates
                           ELSE vehicles[nearest_vehicle_idx].depot_location,
                           locations[last_location].coordinates) ], 1, 1)
    IN  IF ~ ( /\ total_initial_assignments_len # 0
               /\ Len(remaining) = total_initial_assignments_len
               /\ total_initial_assignments_len
                      - Cardinality(unique_assignment_loc_ids) = 1 )
        THEN Returns(routes)
        ELSE IF last_location = NoneLoc THEN Returns(routes)
        ELSE IF total_wco_before_add + locations[last_location].wco_amount
                    > vehicles[nearest_vehicle_idx].capacity
        THEN Returns(routes)
        ELSE IF nearest_vehicle_idx > Len(routes) THEN Raises
        ELSE IF target = <<>> THEN Raises
        ELSE Returns(List([ routes EXCEPT ![nearest_vehicle_idx] =
                                SubSeq(target, 1, insert_index - 1) \o <<last_location>>
                                \o SubSeq(target, insert_index, Len(target)) ],
                          Len(routes)))

\* lines 259-279: the register_collection calls of a round, in order; each is
\* <<v_idx, location id, len(assigned_locations)>>
RECURSIVE registration_calls(_, _)
registration_calls(routes, v_idx) ==
    IF v_idx > Len(routes) THEN <<>>
    ELSE LET stops == SelectSeq(routes[v_idx], LAMBDA id : id # NoneLoc)
         IN  List([ k \in DOMAIN stops |-> << v_idx, stops[k], Len(routes[v_idx]) >> ],
                  Len(stops))
             \o registration_calls(routes, v_idx + 1)

\* lines 143-146: the locations of a schedule, in registry order
schedule_locations(schedule) ==
    SelectSeq([ i \in DOMAIN locations |-> i ],
              LAMBDA id : locations[id].disposal_schedule = schedule.frequency)

\* how many stops of the day's CollectionData hold the location
registrations(ledger, d, id) ==
    Cardinality({ key \in DOMAIN ledger.vehicle_collections :
                      key[2] = d /\ id \in ledger.vehicle_collections[key].visited_location_ids })

\* the value of `call` before any call of the ledger
NoCall == [ op |-> "none", vehicle_id |-> 0, day |-> 0, trip_number |-> 0,
            location_id |-> 0, projected |-> 0, ret |-> FALSE ]

\* the state process() starts from (lines 124-136)
InitProcess(max_daily_time) ==
    /\ collection_tracker = TripCollection(AVERAGE_SPEED_KPH, max_daily_time, <<>>)
    /\ call = NoCall
    /\ accepted = [ d \in Days |-> 0 ]
    /\ pc = "schedule"
    /\ sched_idx = 0
    /\ day = 0
    /\ trip_number = 0
    /\ remaining_locations = <<>>
    /\ processed_location_ids = {}
    /\ initial_assignments = <<>>
    /\ vehicle_assignments = <<>>
    /\ pending = <<>>
    /\ reports = <<>>
    /\ registry = NewLocationRegistry
    /\ http = NoRequest
    /\ written = {}

\* a general run: any fleet, registry, schedule list and solver class but
\* OR-Tools
InitGeneral ==
    /\ vehicles \in Fleets
    /\ locations \in Registries
    /\ schedule_entries \in ScheduleLists
    /\ solver_class \in Solvers \ {"ortools"}
    /\ constraints = <<>>
    /\ \E mdt \in MaxDailyTimes : InitProcess(mdt)

\* a run with the OR-Tools solver
InitORTools ==
    /\ vehicles \in FleetsORTools
    /\ locations \in RegistriesORTools
    /\ schedule_entries = <<ScheduleEntry(1, 15)>>
    /\ solver_class = "ortools"
    /\ constraints = <<>>
    /\ InitProcess(MAX_DAILY_TIME)

\* scenario S3: one vehicle of capacity 1000, ten locations of one schedule,
\* collection_time 15, max_daily_time 30
InitS3 ==
    /\ vehicles = FleetS3
    /\ locations = RegistryS3
    /\ schedule_entries = <<ScheduleEntry(2, 15)>>
    /\ solver_class \in Solvers \ {"ortools"}
    /\ constraints = <<>>
    /\ InitProcess(30)

IsS3 == vehicles = FleetS3 /\ locations = RegistryS3

Init == InitGeneral \/ InitORTools \/ InitS3

\* lines 139-160: the next schedule entry has locations
BeginSchedule ==
    /\ pc = "schedule"
    /\ sched_idx < Len(schedule_entries)
    /\ LET schedule == schedule_entries[sched_idx + 1]
       IN  /\ schedule_locations(schedule) # <<>>
           /\ sched_idx' = sched_idx + 1
           /\ day' = schedule.frequency
           /\ remaining_locations' = schedule_locations(schedule)
           /\ trip_number' = 0
           /\ processed_location_ids' = {}
           /\ pc' = "round"
    /\ UNCHANGED <<inputs, registry, http, written, collection_tracker, call, accepted, initial_assignments,
                   vehicle_assignments, pending, reports>>

\* lines 148-150: the next schedule entry has no locations
SkipSchedule ==
    /\ pc = "schedule"
    /\ sched_idx < Len(schedule_entries)
    /\ schedule_locations(schedule_entries[sched_idx + 1]) = <<>>
    /\ sched_idx' = sched_idx + 1
    /\ UNCHANGED <<inputs, registry, http, written, collection_tracker, call, accepted, pc, day, trip_number,
                   remaining_locations, processed_location_ids, initial_assignments,
                   vehicle_assignments, pending, reports>>

\* line 346: process() returns
Finish ==
    /\ pc = "schedule"
    /\ sched_idx = Len(schedule_entries)
    /\ pc' = "done"
    /\ UNCHANGED <<inputs, registry, http, written, collection_tracker, call, accepted, sched_idx, day,
                   trip_number, remaining_locations, processed_location_ids,
                   initial_assignments, vehicle_assignments, pending, reports>>

\* lines 169-256: a round of the while loop up to the registration loop
Round ==
    /\ pc = "round"
    /\ remaining_locations # <<>>
    /\ \E ia \in optimize_vehicle_assignments(vehicles, day, remaining_locations) :
         /\ Len(Flatten(ia)) # 0
         /\ \E r \in optimize_routes(ia) :
              /\ r.status = "returns"
              /\ LET patched == lazy_patch(ia, r.routes, remaining_locations)
                 IN  /\ patched.status = "returns"
                     /\ initial_assignments' = ia
                     /\ trip_number' = IF r.routes # <<>> THEN trip_number + 1
                                       ELSE trip_number
                     /\ vehicle_assignments' = patched.routes
                     /\ pending' = registration_calls(patched.routes, 1)
                     /\ pc' = "register"
    /\ UNCHANGED <<inputs, registry, http, written, collection_tracker, call, accepted, sched_idx, day,
                   remaining_locations, processed_location_ids, reports>>

\* lines 184-186: the scheduler assigned nothing, the while loop is left
RoundBreak ==
    /\ pc = "round"
    /\ remaining_locations # <<>>
    /\ \E ia \in optimize_vehicle_assignments(vehicles, day, remaining_locations) :
         /\ Len(Flatten(ia)) = 0
         /\ initial_assignments' = ia
    /\ pc' = "report"
    /\ UNCHANGED <<inputs, registry, http, written, collection_tracker, call, accepted, sched_idx, day,
                   trip_number, remaining_locations, processed_location_ids,
                   vehicle_assignments, pending, reports>>

\* a round that does not come back: solve() does not return, or solve() or the
\* lazy patch raises and process() ends with the exception
RoundFails ==
    /\ pc = "round"
    /\ remaining_locations # <<>>
    /\ \E ia \in optimize_vehicle_assignments(vehicles, day, remaining_locations) :
         /\ Len(Flatten(ia)) # 0
         /\ initial_assignments' = ia
         /\ \E r \in optimize_routes(ia) :
              \/ r.status = "diverges" /\ pc' = "diverged"
              \/ r.status = "raises" /\ pc' = "aborted"
              \/ /\ r.status = "returns"
                 /\ lazy_patch(ia, r.routes, remaining_locations).status = "raises"
                 /\ pc' = "aborted"
    /\ UNCHANGED <<inputs, registry, http, written, collection_tracker, call, accepted, sched_idx, day,
                   trip_number, remaining_locations, processed_location_ids,
                   vehicle_assignments, pending, reports>>

\* lines 266-289: one pass of the registration loop, one register_collection call
Register ==
    /\ pc = "register"
    /\ pending # <<>>
    /\ LET v_idx == Head(pending)[1]
           location == locations[Head(pending)[2]]
           vehicle == vehicles[v_idx]
           schedule == schedule_entries[sched_idx]
           r == register_collection(collection_tracker, vehicle.id, day, trip_number,
                                    location, vehicle.depot_location,
                                    schedule.collection_time_minutes)
           success == r[2]
       IN  /\ collection_tracker' = r[1]
           /\ call' = [ op |-> "register_collection", vehicle_id |-> vehicle.id,
                        day |-> day, trip_number |-> trip_number,
                        location_id |-> location.id,
                        projected |-> ProjectedTotalTime(collection_tracker, vehicle.id,
                                          day, trip_number, location,
                                          vehicle.depot_location,
                                          schedule.collection_time_minutes),
                        ret |-> success ]
           /\ accepted' = IF success THEN [ accepted EXCEPT ![day] = @ + 1 ] ELSE accepted
           /\ processed_location_ids' =
                  IF ~success /\ Head(pending)[3] > 1 THEN processed_location_ids
                  ELSE processed_location_ids \cup {location.id}
           /\ pending' = Tail(pending)
           /\ written' =
                  IF r[1].vehicle_collections # collection_tracker.vehicle_collections
                  THEN written \cup { <<sched_idx, <<vehicle.id, day, trip_number>>>> }
                  ELSE written
    /\ UNCHANGED <<inputs, registry, http, pc, sched_idx, day, trip_number, remaining_locations,
                   initial_assignments, vehicle_assignments, reports>>

\* lines 291-300: the end of a round
EndRound ==
    /\ pc = "register"
    /\ pending = <<>>
    /\ remaining_locations' =
           SelectSeq(remaining_locations, LAMBDA id : id \notin processed_location_ids)
    /\ IF exceeds_daily_time(collection_tracker, day)
       THEN /\ collection_tracker' = clear_total_time(collection_tracker, day)
            /\ call' = [ NoCall EXCEPT !.op = "clear_total_time", !.day = day ]
            /\ accepted' = [ accepted EXCEPT ![day] = 0 ]
       ELSE UNCHANGED <<collection_tracker, call, accepted>>
    /\ pc' = "round"
    /\ UNCHANGED <<inputs, registry, http, written, sched_idx, day, trip_number, processed_location_ids,
                   initial_assignments, vehicle_assignments, pending, reports>>

\* line 169: the while loop ends, nothing remains
RoundsDone ==
    /\ pc = "round"
    /\ remaining_locations = <<>>
    /\ pc' = "report"
    /\ UNCHANGED <<inputs, registry, http, written, collection_tracker, call, accepted, sched_idx, day,
                   trip_number, remaining_locations, processed_location_ids,
                   initial_assignments, vehicle_assignments, pending, reports>>

\* lines 302-344: the location report of the schedule and the analysis of
\* its days
Report ==
    /\ pc = "report"
    /\ LET schedule == schedule_entries[sched_idx]
           locs == schedule_locations(schedule)
       IN  reports' = Append(reports,
               [ frequency |-> schedule.frequency,
                 successful_locations |->
                     SelectSeq(locs, LAMBDA id : id \in processed_location_ids),
                 missing_locations |->
                     SelectSeq(locs, LAMBDA id : id \notin processed_location_ids),
                 schedule_results |->
                     generate_analysis_data(collection_tracker, vehicles,
                                            schedule.frequency) ])
    /\ pc' = "schedule"
    /\ UNCHANGED <<inputs, registry, http, written, collection_tracker, call, accepted, sched_idx, day,
                   trip_number, remaining_locations, processed_location_ids,
                   initial_assignments, vehicle_assignments, pending>>

Next ==
    \/ BeginSchedule
    \/ SkipSchedule
    \/ Finish
    \/ Round
    \/ RoundBreak
    \/ RoundFails
    \/ Register
    \/ EndRound
    \/ RoundsDone
    \/ Report

Spec == Init /\ [][Next]_vars

-----------------------------------------------------------------------------
(* api/server.py: POST /api/optimize.  models/config.py of this source     *)
(* tree does not define Config; the request is taken as what the handler   *)
(* reads from it: settings.solver, settings.vehicles, schedules, and the   *)
(* list of locations.  An exception that leaves the handler becomes the    *)
(* response FastAPI makes of it: the status code of an HTTPException.      *)

\* solvers/solvers.py: SOLVERS, a dict keyed by the classes' id attributes.
\* ORToolsSolver, GreedySolver and BasicSolver all inherit the id
\* "base_solver", so the last entry of the literal, BasicSolver, holds the key
SOLVERS ==
    [ id \in { solver_id(cls) : cls \in {"ortools", "greedy", "nearest", "basic"} } |->
        IF id = solver_id("nearest") THEN "nearest" ELSE "basic" ]

\* the solver ids a request may name: the two keys of SOLVERS and two ids
\* that are no key
RequestedSolvers == {"base_solver", "nearest_neighbor_solver", "or_tools_solver", "unknown"}

\* raise HTTPException(status_code=...): the exception as a record
HTTPException(status_code) == [ exception |-> "HTTPException", status_code |-> status_code ]

\* lines 134-140: `except Exception as e` catches every exception raised in
\* the try block, HTTPException included (it derives from Exception), and
\* raises HTTPException(500) in its place
handle_exception(e) == HTTPException(500)

\* lines 60-63: the registry of the request's locations
RECURSIVE registry_of(_, _)
registry_of(locs, i) ==
    IF i = 0 THEN NewLocationRegistry
    ELSE registry_add(registry_of(locs, i - 1),
                      NamedLocation(locs[i].id, "location", locs[i].coordinates))

InitServer ==
    /\ vehicles \in Fleets
    /\ locations \in Registries
    /\ schedule_entries \in ScheduleLists
    /\ solver_class = "none"
    /\ constraints = <<>>
    /\ collection_tracker = TripCollection(AVERAGE_SPEED_KPH, MAX_DAILY_TIME, <<>>)
    /\ call = NoCall
    /\ accepted = [ d \in Days |-> 0 ]
    /\ pc = "request"
    /\ sched_idx = 0
    /\ day = 0
    /\ trip_number = 0
    /\ remaining_locations = <<>>
    /\ processed_location_ids = {}
    /\ initial_assignments = <<>>
    /\ vehicle_assignments = <<>>
    /\ pending = <<>>
    /\ reports = <<>>
    /\ registry = NewLocationRegistry
    /\ http \in { [ solver |-> s, status_code |-> 0 ] : s \in RequestedSolvers }
    /\ written = {}

\* lines 59-94: the handler up to the call of process().  An unknown solver
\* raises HTTPException(400) at line 76, inside the try block
OptimizeRoutes ==
    /\ pc = "request"
    /\ registry' = registry_of(locations, Len(locations))
    /\ IF http.solver \notin DOMAIN SOLVERS
       THEN /\ http' = [ http EXCEPT
                          !.status_code = handle_exception(HTTPException(400)).status_code ]
            /\ pc' = "responded"
            /\ UNCHANGED solver_class
       ELSE /\ solver_class' = SOLVERS[http.solver]
            /\ pc' = "schedule"
            /\ UNCHANGED http
    /\ UNCHANGED <<vehicles, locations, schedule_entries, constraints, collection_tracker,
                   call, accepted, sched_idx, day, trip_number, remaining_locations,
                   processed_location_ids, initial_assignments, vehicle_assignments,
                   pending, reports, written>>

\* lines 96-132: process() returned; the results are answered (a failure of
\* the visualizer is caught at line 121)
RespondResults ==
    /\ pc = "done"
    /\ http' = [ http EXCEPT !.status_code = 200 ]
    /\ pc' = "responded"
    /\ UNCHANGED <<inputs, registry, written, collection_tracker, call, accepted, sched_idx, day,
                   trip_number, remaining_locations, processed_location_ids,
                   initial_assignments, vehicle_assignments, pending, reports>>

\* the handler's steps.  With the two classes SOLVERS holds, process() does
\* not raise on these requests (RoundFails is never enabled), so the except
\* clause of line 134 is entered from line 76 only
NextServer ==
    \/ OptimizeRoutes
    \/ BeginSchedule
    \/ SkipSchedule
    \/ Finish
    \/ Round
    \/ RoundBreak
    \/ Register
    \/ EndRound
    \/ RoundsDone
    \/ Report
    \/ RespondResults

SpecServer == InitServer /\ [][NextServer]_vars

-----------------------------------------------------------------------------
(* The ledger on its own: any caller, any order of calls.                  *)

\* the registry a direct caller of the ledger draws its locations from
LedgerRegistry ==
    << Location(1, 4, 20, 1), Location(2, 1, 30, 1), Location(3, 6, 60, 2) >>

InitLedger ==
    /\ vehicles = <<Vehicle(1, 100)>>
    /\ locations = LedgerRegistry
    /\ schedule_entries = <<ScheduleEntry(1, 15)>>
    /\ solver_class = "none"
    /\ constraints = <<>>
    /\ \E mdt \in MaxDailyTimes, closed \in {{}, {1}} :
           collection_tracker =
               TripCollection(AVERAGE_SPEED_KPH, mdt, [ d \in closed |-> TRUE ])
    /\ call = NoCall
    /\ accepted = [ d \in Days |-> 0 ]
    /\ pc = "ledger"
    /\ sched_idx = 0
    /\ day = 0
    /\ trip_number = 0
    /\ remaining_locations = <<>>
    /\ processed_location_ids = {}
    /\ initial_assignments = <<>>
    /\ vehicle_assignments = <<>>
    /\ pending = <<>>
    /\ reports = <<>>
    /\ registry = NewLocationRegistry
    /\ http = NoRequest
    /\ written = {}

\* collection_tracker.register_collection(vehicle_id, day, trip_number, location, depot, minutes)
LedgerRegister ==
    \E v \in DOMAIN vehicles, d \in Days, t \in Trips, l \in DOMAIN locations :
        LET r == register_collection(collection_tracker, vehicles[v].id, d, t,
                                     locations[l], vehicles[v].depot_location, 15)
        IN  /\ collection_tracker.total_stops < LedgerStops
            /\ collection_tracker' = r[1]
            /\ call' = [ op |-> "register_collection", vehicle_id |-> vehicles[v].id,
                         day |-> d, trip_number |-> t, location_id |-> locations[l].id,
                         projected |-> ProjectedTotalTime(collection_tracker,
                                           vehicles[v].id, d, t, locations[l],
                                           vehicles[v].depot_location, 15),
                         ret |-> r[2] ]
            /\ accepted' = IF r[2] THEN [ accepted EXCEPT ![d] = @ + 1 ] ELSE accepted
            /\ UNCHANGED <<inputs, registry, http, written, driver>>

\* collection_tracker.clear_total_time(day)
LedgerClear ==
    \E d \in Days :
        /\ collection_tracker' = clear_total_time(collection_tracker, d)
        /\ call' = [ NoCall EXCEPT !.op = "clear_total_time", !.day = d ]
        /\ accepted' = [ accepted EXCEPT ![d] = 0 ]
        /\ UNCHANGED <<inputs, registry, http, written, driver>>

NextLedger == LedgerRegister \/ LedgerClear

SpecLedger == InitLedger /\ [][NextLedger]_vars

-----------------------------------------------------------------------------
(* The solvers on their own: solver_class(locations, vehicles,             *)
(* constraints).solve() for any list of registry locations.                *)

Reverse(s) == [ i \in 1..Len(s) |-> s[Len(s) + 1 - i] ]

\* the location lists a solver is given: any non-empty set of registry
\* locations, in registry order or in the opposite order
SolverInputs ==
    { Ascending(S) : S \in (SUBSET DOMAIN locations) \ {{}} }
        \cup { Reverse(Ascending(S)) : S \in (SUBSET DOMAIN locations) \ {{}} }

\* the registries of the solver runs: every location on schedule 1
SolverRegistries ==
    { [ i \in 1..NumLocs |-> Location(i, CoordinatesOf(i), w[i], 1) ] : w \in WcoProfiles }

\* the one-way roads of the solver runs: none, or one road between the
\* places of two registry locations
OneWayRoads ==
    { <<>> } \cup { << <<CoordinatesOf(p[1]), CoordinatesOf(p[2])>> >> :
                      p \in { <<2, 3>>, <<3, 2>>, <<1, 3>>, <<3, 1>> } }

InitSolver ==
    /\ vehicles \in Fleets \cup FleetsORTools
    /\ locations \in SolverRegistries
    /\ schedule_entries = <<ScheduleEntry(1, 15)>>
    /\ solver_class \in Solvers \ {"none"}
    /\ constraints \in OneWayRoads
    /\ collection_tracker = TripCollection(AVERAGE_SPEED_KPH, MAX_DAILY_TIME, <<>>)
    /\ call = NoCall
    /\ accepted = [ d \in Days |-> 0 ]
    /\ pc = "solver"
    /\ sched_idx = 0
    /\ day = 0
    /\ trip_number = 0
    /\ remaining_locations = <<>>
    /\ processed_location_ids = {}
    /\ initial_assignments = <<>>
    /\ vehicle_assignments = <<>>
    /\ pending = <<>>
    /\ reports = <<>>
    /\ registry = NewLocationRegistry
    /\ http = NoRequest
    /\ written = {}

\* solver = solver_class(locations=locs, vehicles=vs, constraints=...);
\* solver.solve(): initial_assignments holds the list given, and
\* vehicle_assignments the routes returned
SolverSolve ==
    /\ pc = "solver"
    /\ \E locs \in SolverInputs :
       \E vs \in {vehicles} \cup { <<vehicles[v]>> : v \in DOMAIN vehicles } :
       \E r \in solve(solver_class, locs, vs) :
           /\ initial_assignments' = <<locs>>
           /\ vehicle_assignments' = r.routes
           /\ call' = [ NoCall EXCEPT !.op = "solve", !.ret = (r.status = "returns"),
                                      !.vehicle_id = Len(vs) ]
    /\ pc' = "solved"
    /\ UNCHANGED <<inputs, registry, http, written, collection_tracker, accepted, sched_idx, day,
                   trip_number, remaining_locations, processed_location_ids,
                   pending, reports>>

NextSolver == SolverSolve

SpecSolver == InitSolver /\ [][NextSolver]_vars

-----------------------------------------------------------------------------
(* The location registry on its own: any caller, any order of calls.       *)

RegistryAdds == 3   \* entries the coordinate index may hold before a clear

\* the locations a caller hands to the registry: ids, names and places repeat
RegistryItems ==
    { NamedLocation(id, p[1], p[2]) :
        id \in 1..3, p \in { <<"a", 1>>, <<"a", 2>>, <<"b", 2>> } }

InitRegistry ==
    /\ vehicles = <<Vehicle(1, 100)>>
    /\ locations = LedgerRegistry
    /\ schedule_entries = <<ScheduleEntry(1, 15)>>
    /\ solver_class = "none"
    /\ constraints = <<>>
    /\ collection_tracker = TripCollection(AVERAGE_SPEED_KPH, MAX_DAILY_TIME, <<>>)
    /\ call = NoCall
    /\ accepted = [ d \in Days |-> 0 ]
    /\ pc = "registry"
    /\ sched_idx = 0
    /\ day = 0
    /\ trip_number = 0
    /\ remaining_locations = <<>>
    /\ processed_location_ids = {}
    /\ initial_assignments = <<>>
    /\ vehicle_assignments = <<>>
    /\ pending = <<>>
    /\ reports = <<>>
    /\ registry = NewLocationRegistry
    /\ http = NoRequest
    /\ written = {}

\* the number of ids the coordinate index holds
CoordinateEntries(self) ==
    LET keys == Ascending(DOMAIN self.coordinates_map)
    IN  SumSeq([ i \in 1..Len(keys) |-> Len(self.coordinates_map[keys[i]]) ])

\* registry.add(location)
RegistryAdd ==
    /\ pc = "registry"
    /\ CoordinateEntries(registry) < RegistryAdds
    /\ \E location \in RegistryItems :
           /\ registry' = registry_add(registry, location)
           /\ call' = [ NoCall EXCEPT !.op = "add", !.location_id = location.id,
                                      !.projected = Len(registry.all_locations),
                                      !.ret = TRUE ]
    /\ UNCHANGED <<inputs, http, written, collection_tracker, accepted, driver>>

\* registry.remove(location)
RegistryRemove ==
    /\ pc = "registry"
    /\ \E location \in RegistryItems :
           LET r == registry_remove(registry, location)
           IN  /\ registry' = r[1]
               /\ call' = [ NoCall EXCEPT !.op = "remove", !.location_id = location.id,
                                          !.ret = (r[2] = "returns") ]
    /\ UNCHANGED <<inputs, http, written, collection_tracker, accepted, driver>>

\* registry.clear()
RegistryClear ==
    /\ pc = "registry"
    /\ registry' = registry_clear(registry)
    /\ call' = [ NoCall EXCEPT !.op = "clear", !.ret = TRUE ]
    /\ UNCHANGED <<inputs, http, written, collection_tracker, accepted, driver>>

NextRegistry == RegistryAdd \/ RegistryRemove \/ RegistryClear

SpecRegistry == InitRegistry /\ [][NextRegistry]_vars

-----------------------------------------------------------------------------
(* The scheduler on its own: optimize_vehicle_assignments called as        *)
(* process() calls it (cvrp.py:176-182), on registries with far locations. *)

minimum_force_threshold == 5

\* a location further than this from the depot and from every near location
\* takes more than MAX_TRAVEL_TIME to reach and is left by the scoring pass
FarAway == 130

\* the registries of the general runs, with the last m locations far away
SchedulerRegistries ==
    { [ i \in 1..NumLocs |->
          Location(i, IF i > NumLocs - m THEN FarAway + CoordinatesOf(i) ELSE CoordinatesOf(i),
                   w[i], 1) ] :
        w \in WcoProfiles, m \in {0, 1, 2, 3, NumLocs} }

InitScheduler ==
    /\ vehicles \in Fleets
    /\ locations \in SchedulerRegistries
    /\ schedule_entries = <<ScheduleEntry(1, 15)>>
    /\ solver_class = "none"
    /\ constraints = <<>>
    /\ collection_tracker = TripCollection(AVERAGE_SPEED_KPH, MAX_DAILY_TIME, <<>>)
    /\ call = NoCall
    /\ accepted = [ d \in Days |-> 0 ]
    /\ pc = "scheduler"
    /\ sched_idx = 0
    /\ day = 1
    /\ trip_number = 0
    /\ remaining_locations = <<>>
    /\ processed_location_ids = {}
    /\ initial_assignments = <<>>
    /\ vehicle_assignments = <<>>
    /\ pending = <<>>
    /\ reports = <<>>
    /\ registry = NewLocationRegistry
    /\ http = NoRequest
    /\ written = {}

\* initial_assignments = optimize_vehicle_assignments(vehicles, day,
\* remaining_locations); pending keeps the locations the scoring pass left
\* unassigned, in the order the second pass takes them
SchedulerAssign ==
    /\ pc = "scheduler"
    /\ \E locs \in SolverInputs :
       \E p \in assignment_passes(vehicles, locs) :
           /\ remaining_locations' = locs
           /\ pending' = p.unassigned_locations
           /\ initial_assignments' = p.assignments
    /\ call' = [ NoCall EXCEPT !.op = "assign" ]
    /\ pc' = "scheduled"
    /\ UNCHANGED <<inputs, registry, http, written, collection_tracker, accepted, sched_idx, day,
                   trip_number, processed_location_ids, vehicle_assignments, reports>>

\* lines 143-144: the call with no locations
SchedulerAssignNothing ==
    /\ pc = "scheduler"
    /\ remaining_locations' = <<>>
    /\ pending' = <<>>
    /\ initial_assignments' \in optimize_vehicle_assignments(vehicles, day, <<>>)
    /\ call' = [ NoCall EXCEPT !.op = "assign" ]
    /\ pc' = "scheduled"
    /\ UNCHANGED <<inputs, registry, http, written, collection_tracker, accepted, sched_idx, day,
                   trip_number, processed_location_ids, vehicle_assignments, reports>>

NextScheduler == SchedulerAssign \/ SchedulerAssignNothing

SpecScheduler == InitScheduler /\ [][NextScheduler]_vars

-----------------------------------------------------------------------------
(* The properties claimed of the pipeline.                                 *)

\* a step that is one register_collection call; `call'` holds its arguments,
\* the projected total time of lines 105-106 and the value returned
RegisterStep ==
    /\ call'.op = "register_collection"
    /\ ( pc = "ledger" \/ (pc = "register" /\ pending # <<>>) )

\* the location is in a CollectionData of this vehicle and day
AlreadyRegistered(ledger, vehicle_id, d, id) ==
    \E key \in DOMAIN ledger.vehicle_collections :
        /\ key[1] = vehicle_id
        /\ key[2] = d
        /\ id \in ledger.vehicle_collections[key].visited_location_ids

\* the capacity of the vehicle with this id
CapacityOf(vehicle_id) ==
    (CHOOSE v \in Range(vehicles) : v.id = vehicle_id).capacity

\* the location is larger than every vehicle
Oversized(id) ==
    \A v \in DOMAIN vehicles : locations[id].wco_amount > vehicles[v].capacity

C5_BreachSetsFlag ==
    [][ ( /\ RegisterStep
          /\ ~exceeds_daily_time(collection_tracker, call'.day)
          /\ ~AlreadyRegistered(collection_tracker, call'.vehicle_id, call'.day,
                                call'.location_id)
          /\ call'.projected > collection_tracker.max_daily_time )
        => ( /\ exceeds_daily_time(collection_tracker', call'.day)
             /\ call'.ret
             /\ collection_tracker'.total_stops = collection_tracker.total_stops + 1 )
      ]_vars

\* C6: a register_collection call for a day whose flag is true returns false
\* and leaves the whole ledger as it was: no CollectionData created, no stop
\* appended, total_trips, total_stops and total_times unchanged.
C6_ClosedDayRefuses ==
    [][ ( RegisterStep /\ exceeds_daily_time(collection_tracker, call'.day) )
        => ( ~call'.ret /\ collection_tracker' = collection_tracker ) ]_vars

\* C6, its case: the last call was refused for a day whose flag is true, in a
\* ledger that holds stops of another day.
C6_Witness ==
    /\ call.op = "register_collection"
    /\ ~call.ret
    /\ exceeds_daily_time(collection_tracker, call.day)
    /\ collection_tracker.total_stops > 0

\* C7: a register_collection call for a location already registered for the
\* same vehicle and day returns false and leaves every counter and every
\* CollectionData unchanged.
C7_DuplicateRefused ==
    [][ ( /\ RegisterStep
          /\ AlreadyRegistered(collection_tracker, call'.vehicle_id, call'.day,
                               call'.location_id) )
        => ( ~call'.ret /\ collection_tracker' = collection_tracker ) ]_vars

C9_AtMostTwoStops ==
    collection_tracker.max_daily_time = 30 =>
        \A d \in Days : accepted[d] <= 2

RECURSIVE PrefixCollected(_, _)
PrefixCollected(cd, k) ==
    IF k = 0 THEN 0 ELSE PrefixCollected(cd, k - 1) + cd.stops[k].amount_collected

\* C11: in every CollectionData the cumulative_load of the k-th stop is the
\* sum of amount_collected of the stops 1..k, and it does not decrease along
\* the trip.
C11_CumulativeLoadIsPrefixSum ==
    \A key \in DOMAIN collection_tracker.vehicle_collections :
        LET cd == collection_tracker.vehicle_collections[key]
        IN  /\ \A k \in DOMAIN cd.stops :
                   cd.stops[k].cumulative_load = PrefixCollected(cd, k)
            /\ \A k \in DOMAIN cd.stops :
                   k > 1 => cd.stops[k - 1].cumulative_load <= cd.stops[k].cumulative_load

\* C11, its case: a CollectionData with three stops of different amounts.
C11_Witness ==
    \E key \in DOMAIN collection_tracker.vehicle_collections :
        LET cd == collection_tracker.vehicle_collections[key]
        IN  /\ Len(cd.stops) = 3
            /\ cd.stops[1].amount_collected # cd.stops[2].amount_collected
            /\ cd.stops[3].cumulative_load > cd.stops[2].cumulative_load


\* C12: whichever solver ran, the location ids in the routes it returned
\* (None left aside) are ids of the locations it was given.
C12_SolverNonExpansion ==
    ( call.op = "solve" /\ call.ret )
        => StopIds(vehicle_assignments) \subseteq Range(initial_assignments[1])

\* C12, its case: the OR-Tools solver found no solution for two vehicles and
\* returned the fallback route over the locations it was given.
C12_Witness ==
    /\ call.op = "solve"
    /\ call.ret
    /\ solver_class = "ortools"
    /\ call.vehicle_id = 2
    /\ Len(initial_assignments[1]) >= 3
    /\ vehicle_assignments = << <<NoneLoc>> \o initial_assignments[1] \o <<NoneLoc>> >>


\* the route has the stop at coordinates `to` immediately followed by the
\* stop at coordinates `from`
GoesAgainst(route, from, to) ==
    \E k \in 1..(Len(route) - 1) :
        /\ route[k] # NoneLoc
        /\ route[k + 1] # NoneLoc
        /\ locations[route[k]].coordinates = to
        /\ locations[route[k + 1]].coordinates = from

\* C13: for every one-way pair (from, to) of the constraints, no route the
\* OR-Tools solver returns, from a solution or from a fallback branch, has
\* the stop at `to` immediately followed by the stop at `from`.
C13_ORToolsKeepsOneWay ==
    ( call.op = "solve" /\ call.ret /\ solver_class = "ortools" )
        => \A c \in DOMAIN constraints, v \in DOMAIN vehicle_assignments :
               ~GoesAgainst(vehicle_assignments[v], constraints[c][1], constraints[c][2])


\* C14: an add of a Location whose id is in the registry leaves the registry
\* as it was (length, order, every index); an add of a new id makes it one
\* longer; and no id is in the registry twice.
C14_AddIsIdIdempotent ==
    /\ [][ ( call'.op = "add" /\ call'.location_id \in Range(registry.location_ids) )
           => registry' = registry ]_vars
    /\ [][ ( call'.op = "add" /\ call'.location_id \notin Range(registry.location_ids) )
           => Len(registry'.all_locations) = Len(registry.all_locations) + 1 ]_vars
    /\ [](\A i, j \in DOMAIN registry.all_locations :
              i # j => registry.all_locations[i].id # registry.all_locations[j].id)

\* C14, its case: the last call was an add of a Location whose id the
\* registry of two entries already held (call.projected is the length
\* before the call), and the registry is as long as before.
C14_Witness ==
    /\ call.op = "add"
    /\ call.projected = 2
    /\ Len(registry.all_locations) = 2
    /\ call.location_id \in Range(registry.location_ids)
    /\ CoordinateEntries(registry) = 2


\* the walk of the second pass as the claim describes it: each location of
\* `locs` in turn belongs to the first vehicle whose load leaves room for it,
\* and to no vehicle when there is none
RECURSIVE ForceAssigned(_, _, _, _)
ForceAssigned(vs, locs, loads, final) ==
    IF locs = <<>> THEN TRUE
    ELSE LET location == locations[Head(locs)]
             fits == { v \in DOMAIN vs : loads[v] + location.wco_amount <= vs[v].capacity }
         IN  IF fits = {}
             THEN /\ \A v \in DOMAIN vs : Head(locs) \notin Range(final[v])
                  /\ ForceAssigned(vs, Tail(locs), loads, final)
             ELSE LET first == CHOOSE v \in fits : \A u \in fits : v <= u
                  IN  /\ Head(locs) \in Range(final[first])
                      /\ \A v \in DOMAIN vs \ {first} : Head(locs) \notin Range(final[v])
                      /\ ForceAssigned(vs, Tail(locs),
                                       [ loads EXCEPT ![first] = @ + location.wco_amount ],
                                       final)

RECURSIVE HopsFrom(_, _, _)
HopsFrom(stops, i, depot) ==
    IF i = Len(stops) THEN calculate_distance(stops[i].coordinates, depot)
    ELSE calculate_distance(stops[i].coordinates, stops[i + 1].coordinates)
         + HopsFrom(stops, i + 1, depot)

C18_UnknownSolverIs400 ==
    (pc = "responded" /\ http.solver \notin DOMAIN SOLVERS) => http.status_code = 400

C22_FallbackSortedSingleRoute ==
    ( pc = "solved" /\ solver_class = "ortools" ) =>
    \A vs \in {vehicles} \cup { <<vehicles[v]>> : v \in DOMAIN vehicles } :
        LET locs == initial_assignments[1]
            result == [ status |-> IF call.ret THEN "returns" ELSE "raises",
                        routes |-> vehicle_assignments ]
            stops == SelectSeq(vehicle_assignments[1], LAMBDA id : id # NoneLoc)
        IN  ( /\ Len(vs) = call.vehicle_id
              /\ Len(locs) > 1
              /\ result \in ORToolsSolver_solve(locs, vs)
              /\ ORToolsSolutions(locs, vs) = {} \/ ~call.ret )
            => /\ call.ret
               /\ Len(vehicle_assignments) = 1
               /\ Len(stops) = Len(locs)
               /\ Range(stops) = Range(locs)
               /\ \A k \in 1..(Len(stops) - 1) :
                      distance_from_depot(stops[k]) <= distance_from_depot(stops[k + 1])

C24_AssignmentsWithinCapacity ==
    pc = "scheduled" =>
        /\ Len(initial_assignments) = Len(vehicles)
        /\ Range(Flatten(initial_assignments)) \subseteq Range(remaining_locations)
        /\ Cardinality(Range(Flatten(initial_assignments)))
               = Len(Flatten(initial_assignments))
        /\ \A v \in DOMAIN vehicles :
               SumSeq([ i \in DOMAIN initial_assignments[v] |->
                          locations[initial_assignments[v][i]].wco_amount ])
                   <= vehicles[v].capacity
        /\ remaining_locations = <<>> =>
               \A v \in DOMAIN vehicles : initial_assignments[v] = <<>>

\* a fleet of two whose first vehicle is filled to its capacity, partly by
\* the second pass, and whose second vehicle carries locations too
C24_Witness ==
    /\ pc = "scheduled"
    /\ Len(vehicles) = 2
    /\ SumSeq([ i \in DOMAIN initial_assignments[1] |->
                  locations[initial_assignments[1][i]].wco_amount ])
           = vehicles[1].capacity
    /\ initial_assignments[2] # <<>>
    /\ Range(pending) \cap Range(initial_assignments[1]) # {}

C26_NearestNeighborTripsFit ==
    ( pc = "solved" /\ solver_class = "nearest" /\ call.ret ) =>
    \A vs \in {vehicles} \cup { <<vehicles[v]>> : v \in DOMAIN vehicles } :
        ( /\ Len(vs) = call.vehicle_id
          /\ Returns(vehicle_assignments)
                 = NearestNeighborSolver_solve(initial_assignments[1], vs) )
        => \A v \in DOMAIN vehicle_assignments :
               LET route == vehicle_assignments[v]
               IN  \A i, j \in DOMAIN route :
                       ( i <= j /\ \A k \in i..j : route[k] # NoneLoc )
                       => SumSeq([ k \in 1..(j - i + 1) |->
                                     locations[route[i + k - 1]].wco_amount ])
                              <= vs[v].capacity

\* C27: GreedySolver.solve returns for every list of locations and every
\* fleet it is given, also when a location is larger than a whole vehicle
C27_GreedyTerminates ==
    ( pc = "solved" /\ call.op = "solve" /\ solver_class = "greedy" ) => call.ret

\* C28: whatever adds and removes were made, get_by_id, get_by_name and
\* get_by_coordinates return, for every id, name and position, exactly the
\* locations the registry now contains that have that id, name or position
C28_IndexesAgreeWithList ==
    pc = "registry" =>
    LET contained == Range(registry.all_locations)
    IN  /\ \A id \in { item.id : item \in RegistryItems } :
               get_by_id(registry, id) = <<{ l \in contained : l.id = id }, "returns">>
        /\ \A name \in { item.name : item \in RegistryItems } :
               get_by_name(registry, name)
                   = <<{ l \in contained : l.name = name }, "returns">>
        /\ \A coordinates \in { item.coordinates : item \in RegistryItems } :
               LET found == get_by_coordinates(registry, coordinates)
               IN  /\ found[2] = "returns"
                   /\ Range(found[1]) = { l \in contained : l.coordinates = coordinates }
                   /\ Len(found[1]) = Cardinality(Range(found[1]))

C30_CountersMatchLedger ==
    pc = "ledger" =>
    LET collections == collection_tracker.vehicle_collections
    IN  /\ collection_tracker.total_trips = Cardinality(DOMAIN collections)
        /\ collection_tracker.total_stops
               = Cardinality(UNION { { <<key, i>> : i \in DOMAIN collections[key].stops } :
                                         key \in DOMAIN collections })
        /\ \A key \in DOMAIN collections :
               /\ Len(collections[key].stops) >= 1
               /\ collections[key].visited_location_ids
                      = { collections[key].stops[i].location_id :
                              i \in DOMAIN collections[key].stops }

\* the last call reset a day that carries a flag, in a ledger of two trips
\* and three stops, some of them of that day
C30_Witness ==
    /\ pc = "ledger"
    /\ call.op = "clear_total_time"
    /\ call.day \in DOMAIN collection_tracker.exceeds_daily_time_map
    /\ collection_tracker.total_trips = 2
    /\ collection_tracker.total_stops = 3
    /\ \E key \in DOMAIN collection_tracker.vehicle_collections : key[2] = call.day

====
